---- MODULE Spec2Model ----
(***************************************************************************)
(* State-machine model of the DeJaVu prediction-market Solana program      *)
(* (contracts/solana/programs/dejavu/src/lib.rs).                          *)
(*                                                                         *)
(* The program owns one Market account per (authority, title) seed pair.   *)
(* Three instructions exist: create_market, buy_shares, resolve_market.    *)
(* Each instruction is one atomic transaction: Anchor validates the        *)
(* accounts struct, then runs the handler; an Err from either rolls the    *)
(* whole transaction back.                                                 *)
(***************************************************************************)
EXTENDS Integers, Sequences, FiniteSets, TLC

\* ------------------------------------------------------------------------
\* Bounds of the model
\* ------------------------------------------------------------------------
MaxTime == 2

\* ------------------------------------------------------------------------
\* Input domains
\* ------------------------------------------------------------------------
Signers == {"alice", "bob"}
Titles == {"t1"}
EndTimes == 0..MaxTime
\* outcome_names.len(): below, at and above both limits, and one value that
\* a narrowing to u8 would wrap (258 = 256 + 2)
LenInputs == {1, 2, 10, 11, 258}
\* u8 outcome indices: valid everywhere (0), first invalid index of a
\* 2-outcome market (2) and of a 10-outcome market (10)
OutcomeIds == {0, 2, 10}
ShareInputs == {0, 1}

U8 == 256

\* Option<T>
None == <<>>
Some(x) == <<x>>
IsSome(o) == Len(o) = 1
IsNone(o) == Len(o) = 0

\* Program-derived address of the market account: seeds
\* [b"market", authority, title]
MarketPda(authority, title) == <<authority, title>>
Keys == {MarketPda(a, t) : a \in Signers, t \in Titles}
NoKey == <<"", "">>

\* A Market account that the system program has not yet created
Uninitialized ==
    [ initialized     |-> FALSE,
      authority       |-> "",
      title           |-> "",
      created_at      |-> 0,
      end_time        |-> 0,
      resolution_time |-> None,
      status          |-> "Active",
      total_volume    |-> 0,
      total_liquidity |-> 0,
      outcome_count   |-> 0,
      winning_outcome |-> None ]

MarketStatus == {"Active", "Closed", "Resolved", "Disputed"}

VARIABLES
    markets,      \* PDA -> Market account
    now,          \* Clock::get().unix_timestamp
    labels,       \* PDA -> outcome_names.len() supplied to the creating call
    collected,    \* PDA -> collateral moved from buyers into the market
    redeemed,     \* PDA -> collateral paid out of the market
    everResolved, \* PDA -> a resolve_market call has succeeded
    seenEnded,    \* PDA -> a state with now >= end_time has occurred
    last          \* the last instruction processed and its result

vars == <<markets, now, labels, collected, redeemed, everResolved, seenEnded, last>>

Ok == "Ok"

\* ------------------------------------------------------------------------
\* Handlers
\* ------------------------------------------------------------------------

\* create_market as it would be without the upper limit on outcomes
create_market_noUpperLimit(market, authority, title, clock, end_time, n_outcomes) ==
    IF ~(end_time > clock) THEN [result |-> "InvalidEndTime", market |-> market]
    ELSE IF ~(n_outcomes >= 2) THEN [result |-> "InsufficientOutcomes", market |-> market]
    ELSE [result |-> Ok,
          market |-> [market EXCEPT
                        !.initialized = TRUE,
                        !.authority = authority,
                        !.title = title,
                        !.created_at = clock,
                        !.end_time = end_time,
                        !.status = "Active",
                        !.total_volume = 0,
                        !.total_liquidity = 0,
                        !.outcome_count = n_outcomes % U8]]

\* create_market as it would be with end_time >= now accepted
create_market_endNow(market, authority, title, clock, end_time, n_outcomes) ==
    IF ~(end_time >= clock) THEN [result |-> "InvalidEndTime", market |-> market]
    ELSE IF ~(n_outcomes >= 2) THEN [result |-> "InsufficientOutcomes", market |-> market]
    ELSE IF ~(n_outcomes <= 10) THEN [result |-> "TooManyOutcomes", market |-> market]
    ELSE [result |-> Ok,
          market |-> [market EXCEPT
                        !.initialized = TRUE,
                        !.authority = authority,
                        !.title = title,
                        !.created_at = clock,
                        !.end_time = end_time,
                        !.status = "Active",
                        !.total_volume = 0,
                        !.total_liquidity = 0,
                        !.outcome_count = n_outcomes % U8]]

\* create_market as it would be if it did not record created_at
create_market_noCreatedAt(market, authority, title, clock, end_time, n_outcomes) ==
    IF ~(end_time > clock) THEN [result |-> "InvalidEndTime", market |-> market]
    ELSE IF ~(n_outcomes >= 2) THEN [result |-> "InsufficientOutcomes", market |-> market]
    ELSE IF ~(n_outcomes <= 10) THEN [result |-> "TooManyOutcomes", market |-> market]
    ELSE [result |-> Ok,
          market |-> [market EXCEPT
                        !.initialized = TRUE,
                        !.authority = authority,
                        !.title = title,
                        !.end_time = end_time,
                        !.status = "Active",
                        !.total_volume = 0,
                        !.total_liquidity = 0,
                        !.outcome_count = n_outcomes % U8]]

\* create_market handler body; `market` is the freshly allocated account
create_market(market, authority, title, clock, end_time, n_outcomes) ==
    IF ~(end_time > clock) THEN [result |-> "InvalidEndTime", market |-> market]
    ELSE IF ~(n_outcomes >= 2) THEN [result |-> "InsufficientOutcomes", market |-> market]
    ELSE IF ~(n_outcomes <= 10) THEN [result |-> "TooManyOutcomes", market |-> market]
    ELSE [result |-> Ok,
          market |-> [market EXCEPT
                        !.initialized = TRUE,
                        !.authority = authority,
                        !.title = title,
                        !.created_at = clock,
                        !.end_time = end_time,
                        !.status = "Active",
                        !.total_volume = 0,
                        !.total_liquidity = 0,
                        !.outcome_count = n_outcomes % U8]]

\* buy_shares as it would be without the shares > 0 requirement
buy_shares_noSharesCheck(market, clock, outcome_id, shares) ==
    IF ~(market.status = "Active") THEN [result |-> "MarketNotActive", market |-> market]
    ELSE IF ~(clock < market.end_time) THEN [result |-> "MarketEnded", market |-> market]
    ELSE IF ~(outcome_id < market.outcome_count) THEN [result |-> "InvalidOutcome", market |-> market]
    ELSE [result |-> Ok, market |-> market]

\* buy_shares as it would be if tradability were decided by the stored status only
buy_shares_noDeadline(market, clock, outcome_id, shares) ==
    IF ~(market.status = "Active") THEN [result |-> "MarketNotActive", market |-> market]
    ELSE IF ~(outcome_id < market.outcome_count) THEN [result |-> "InvalidOutcome", market |-> market]
    ELSE IF ~(shares > 0) THEN [result |-> "InvalidShares", market |-> market]
    ELSE [result |-> Ok, market |-> market]

\* buy_shares as it would be if it credited the pool without any transfer
buy_shares_creditOnly(market, clock, outcome_id, shares) ==
    IF ~(market.status = "Active") THEN [result |-> "MarketNotActive", market |-> market]
    ELSE IF ~(clock < market.end_time) THEN [result |-> "MarketEnded", market |-> market]
    ELSE IF ~(outcome_id < market.outcome_count) THEN [result |-> "InvalidOutcome", market |-> market]
    ELSE IF ~(shares > 0) THEN [result |-> "InvalidShares", market |-> market]
    ELSE [result |-> Ok,
          market |-> [market EXCEPT !.total_liquidity = IF @ < 2 THEN @ + 1 ELSE @]]

\* buy_shares as it would be with trading still open at now == end_time
buy_shares_inclusiveDeadline(market, clock, outcome_id, shares) ==
    IF ~(market.status = "Active") THEN [result |-> "MarketNotActive", market |-> market]
    ELSE IF ~(clock <= market.end_time) THEN [result |-> "MarketEnded", market |-> market]
    ELSE IF ~(outcome_id < market.outcome_count) THEN [result |-> "InvalidOutcome", market |-> market]
    ELSE IF ~(shares > 0) THEN [result |-> "InvalidShares", market |-> market]
    ELSE [result |-> Ok, market |-> market]

\* buy_shares as it would be with the deadline checked before the status
buy_shares_deadlineFirst(market, clock, outcome_id, shares) ==
    IF ~(clock < market.end_time) THEN [result |-> "MarketEnded", market |-> market]
    ELSE IF ~(market.status = "Active") THEN [result |-> "MarketNotActive", market |-> market]
    ELSE IF ~(outcome_id < market.outcome_count) THEN [result |-> "InvalidOutcome", market |-> market]
    ELSE IF ~(shares > 0) THEN [result |-> "InvalidShares", market |-> market]
    ELSE [result |-> Ok, market |-> market]

\* buy_shares handler body; the market is borrowed immutably
buy_shares(market, clock, outcome_id, shares) ==
    IF ~(market.status = "Active") THEN [result |-> "MarketNotActive", market |-> market]
    ELSE IF ~(clock < market.end_time) THEN [result |-> "MarketEnded", market |-> market]
    ELSE IF ~(outcome_id < market.outcome_count) THEN [result |-> "InvalidOutcome", market |-> market]
    ELSE IF ~(shares > 0) THEN [result |-> "InvalidShares", market |-> market]
    ELSE [result |-> Ok, market |-> market]

\* resolve_market as it would be without the deadline requirement
resolve_market_noDeadline(market, clock, winning_outcome) ==
    IF ~(market.status = "Active") THEN [result |-> "MarketNotActive", market |-> market]
    ELSE IF ~(winning_outcome < market.outcome_count) THEN [result |-> "InvalidOutcome", market |-> market]
    ELSE [result |-> Ok,
          market |-> [market EXCEPT
                        !.status = "Resolved",
                        !.winning_outcome = Some(winning_outcome),
                        !.resolution_time = Some(clock)]]

\* resolve_market as it would be without the status requirement
resolve_market_noStatus(market, clock, winning_outcome) ==
    IF ~(clock >= market.end_time) THEN [result |-> "MarketNotEnded", market |-> market]
    ELSE IF ~(winning_outcome < market.outcome_count) THEN [result |-> "InvalidOutcome", market |-> market]
    ELSE [result |-> Ok,
          market |-> [market EXCEPT
                        !.status = "Resolved",
                        !.winning_outcome = Some(winning_outcome),
                        !.resolution_time = Some(clock)]]

\* resolve_market as it would be if it stored the timestamp in the liquidity counter
resolve_market_writesLiquidity(market, clock, winning_outcome) ==
    IF ~(market.status = "Active") THEN [result |-> "MarketNotActive", market |-> market]
    ELSE IF ~(clock >= market.end_time) THEN [result |-> "MarketNotEnded", market |-> market]
    ELSE IF ~(winning_outcome < market.outcome_count) THEN [result |-> "InvalidOutcome", market |-> market]
    ELSE [result |-> Ok,
          market |-> [market EXCEPT
                        !.status = "Resolved",
                        !.winning_outcome = Some(winning_outcome),
                        !.resolution_time = Some(clock),
                        !.total_liquidity = clock]]

\* resolve_market as it would be if it closed the market by moving end_time to now
resolve_market_movesDeadline(market, clock, winning_outcome) ==
    IF ~(market.status = "Active") THEN [result |-> "MarketNotActive", market |-> market]
    ELSE IF ~(clock >= market.end_time) THEN [result |-> "MarketNotEnded", market |-> market]
    ELSE IF ~(winning_outcome < market.outcome_count) THEN [result |-> "InvalidOutcome", market |-> market]
    ELSE [result |-> Ok,
          market |-> [market EXCEPT
                        !.status = "Resolved",
                        !.winning_outcome = Some(winning_outcome),
                        !.resolution_time = Some(clock),
                        !.end_time = clock]]

\* resolve_market as it would be if it did not record resolution_time
resolve_market_noTime(market, clock, winning_outcome) ==
    IF ~(market.status = "Active") THEN [result |-> "MarketNotActive", market |-> market]
    ELSE IF ~(clock >= market.end_time) THEN [result |-> "MarketNotEnded", market |-> market]
    ELSE IF ~(winning_outcome < market.outcome_count) THEN [result |-> "InvalidOutcome", market |-> market]
    ELSE [result |-> Ok,
          market |-> [market EXCEPT
                        !.status = "Resolved",
                        !.winning_outcome = Some(winning_outcome)]]

\* resolve_market as it would be if it stored Closed instead of Resolved
resolve_market_toClosed(market, clock, winning_outcome) ==
    IF ~(market.status = "Active") THEN [result |-> "MarketNotActive", market |-> market]
    ELSE IF ~(clock >= market.end_time) THEN [result |-> "MarketNotEnded", market |-> market]
    ELSE IF ~(winning_outcome < market.outcome_count) THEN [result |-> "InvalidOutcome", market |-> market]
    ELSE [result |-> Ok,
          market |-> [market EXCEPT
                        !.status = "Closed",
                        !.winning_outcome = Some(winning_outcome),
                        !.resolution_time = Some(clock)]]

\* resolve_market as it would be if it required the stored status Closed
resolve_market_requiresClosed(market, clock, winning_outcome) ==
    IF ~(market.status = "Closed") THEN [result |-> "MarketNotActive", market |-> market]
    ELSE IF ~(clock >= market.end_time) THEN [result |-> "MarketNotEnded", market |-> market]
    ELSE IF ~(winning_outcome < market.outcome_count) THEN [result |-> "InvalidOutcome", market |-> market]
    ELSE [result |-> Ok,
          market |-> [market EXCEPT
                        !.status = "Resolved",
                        !.winning_outcome = Some(winning_outcome),
                        !.resolution_time = Some(clock)]]

\* resolve_market handler body
resolve_market(market, clock, winning_outcome) ==
    IF ~(market.status = "Active") THEN [result |-> "MarketNotActive", market |-> market]
    ELSE IF ~(clock >= market.end_time) THEN [result |-> "MarketNotEnded", market |-> market]
    ELSE IF ~(winning_outcome < market.outcome_count) THEN [result |-> "InvalidOutcome", market |-> market]
    ELSE [result |-> Ok,
          market |-> [market EXCEPT
                        !.status = "Resolved",
                        !.winning_outcome = Some(winning_outcome),
                        !.resolution_time = Some(clock)]]

\* ------------------------------------------------------------------------
\* Account validation (#[derive(Accounts)])
\* ------------------------------------------------------------------------

\* CreateMarket as it would be with init_if_needed in place of init
CreateMarketAccounts_initIfNeeded(market) == Ok

\* CreateMarket: `init` allocates the PDA and fails when it already exists
CreateMarketAccounts(market) ==
    IF market.initialized THEN "AccountAlreadyInUse" ELSE Ok

\* BuyShares: Account<Market> must deserialize
BuySharesAccounts(market) ==
    IF ~market.initialized THEN "AccountNotInitialized" ELSE Ok

\* ResolveMarket as it would be without the authority constraint
ResolveMarketAccounts_noConstraint(market, signer) ==
    IF ~market.initialized THEN "AccountNotInitialized" ELSE Ok

\* ResolveMarket: Account<Market> must deserialize, then the constraint
ResolveMarketAccounts(market, signer) ==
    IF ~market.initialized THEN "AccountNotInitialized"
    ELSE IF ~(market.authority = signer) THEN "Unauthorized"
    ELSE Ok

\* ------------------------------------------------------------------------
\* Instructions (one transaction each)
\* ------------------------------------------------------------------------

Ended(m, clock) == m.initialized /\ clock >= m.end_time

Observe(ms, clock) ==
    /\ seenEnded' = [k \in Keys |-> seenEnded[k] \/ Ended(ms[k], clock)]

CreateMarketRun(market, signer, title, end_time, n_outcomes) ==
    LET acc == CreateMarketAccounts(market)
    IN IF acc # Ok THEN [result |-> acc, market |-> market]
       ELSE create_market(market, signer, title, now, end_time, n_outcomes)

CreateMarket(signer, title, end_time, n_outcomes) ==
    LET k == MarketPda(signer, title)
        r == CreateMarketRun(markets[k], signer, title, end_time, n_outcomes)
    IN /\ markets' = [markets EXCEPT ![k] = r.market]
       /\ labels' = IF r.result = Ok THEN [labels EXCEPT ![k] = n_outcomes] ELSE labels
       /\ last' = [op |-> "create_market", key |-> k, result |-> r.result]
       /\ Observe(markets', now)
       /\ UNCHANGED <<now, collected, redeemed, everResolved>>

BuySharesRun(market, outcome_id, shares) ==
    LET acc == BuySharesAccounts(market)
    IN IF acc # Ok THEN [result |-> acc, market |-> market]
       ELSE buy_shares(market, now, outcome_id, shares)

BuyShares(k, outcome_id, shares) ==
    LET r == BuySharesRun(markets[k], outcome_id, shares)
    IN /\ markets' = [markets EXCEPT ![k] = r.market]
       /\ last' = [op |-> "buy_shares", key |-> k, result |-> r.result]
       /\ Observe(markets', now)
       \* no token transfer is issued by the handler
       /\ UNCHANGED <<now, labels, collected, redeemed, everResolved>>

ResolveMarketRun(market, signer, winning_outcome) ==
    LET acc == ResolveMarketAccounts(market, signer)
    IN IF acc # Ok THEN [result |-> acc, market |-> market]
       ELSE resolve_market(market, now, winning_outcome)

ResolveMarket(k, signer, winning_outcome) ==
    LET r == ResolveMarketRun(markets[k], signer, winning_outcome)
    IN /\ markets' = [markets EXCEPT ![k] = r.market]
       /\ everResolved' = [everResolved EXCEPT ![k] = @ \/ r.result = Ok]
       /\ last' = [op |-> "resolve_market", key |-> k, result |-> r.result]
       /\ Observe(markets', now)
       /\ UNCHANGED <<now, labels, collected, redeemed>>

\* The cluster clock advances; it never goes back
Tick ==
    /\ now < MaxTime
    /\ now' = now + 1
    /\ last' = [op |-> "tick", key |-> NoKey, result |-> Ok]
    /\ Observe(markets, now')
    /\ UNCHANGED <<markets, labels, collected, redeemed, everResolved>>

Init ==
    /\ markets = [k \in Keys |-> Uninitialized]
    /\ now = 0
    /\ labels = [k \in Keys |-> 0]
    /\ collected = [k \in Keys |-> 0]
    /\ redeemed = [k \in Keys |-> 0]
    /\ everResolved = [k \in Keys |-> FALSE]
    /\ seenEnded = [k \in Keys |-> FALSE]
    /\ last = [op |-> "init", key |-> NoKey, result |-> Ok]

Next ==
    \/ \E s \in Signers, t \in Titles, e \in EndTimes, n \in LenInputs :
          CreateMarket(s, t, e, n)
    \/ \E k \in Keys, o \in OutcomeIds, sh \in ShareInputs : BuyShares(k, o, sh)
    \/ \E k \in Keys, s \in Signers, w \in OutcomeIds : ResolveMarket(k, s, w)
    \/ Tick

Spec == Init /\ [][Next]_vars

TypeOK ==
    /\ now \in 0..MaxTime
    /\ \A k \in Keys : markets[k].status \in MarketStatus
\* ------------------------------------------------------------------------
\* Properties
\* ------------------------------------------------------------------------

\* The step is the processing of instruction `op` on market `k`
Called(op, k) == last'.op = op /\ last'.key = k

\* C1: a buy_shares call on a created market is rejected whenever the status
\* is not Active, or now >= end_time, or outcome >= outcome_count, or
\* shares == 0, and the rejected call leaves every field of the market as
\* it was.
C1_BuyRejected ==
    [][\A k \in Keys, o \in OutcomeIds, sh \in ShareInputs :
          ( /\ Called("buy_shares", k)
            /\ markets[k].initialized
            /\ \/ markets[k].status # "Active"
               \/ now >= markets[k].end_time
               \/ o >= markets[k].outcome_count
               \/ sh = 0
            /\ BuyShares(k, o, sh) )
          => /\ last'.result # Ok
             /\ markets'[k] = markets[k]]_vars

\* a buy of zero shares on a tradable market has been rejected
C1_Witness ==
    /\ last.op = "buy_shares"
    /\ last.result = "InvalidShares"
    /\ markets[last.key].initialized
    /\ markets[last.key].status = "Active"
    /\ now < markets[last.key].end_time

\* C2: under the non-decreasing clock, no buy_shares call on a market
\* succeeds once a resolve_market call on it has succeeded, nor once
\* now >= end_time has occurred, whatever the stored status reads.
C2_NoTradeAfterClose ==
    \A k \in Keys :
        (last.op = "buy_shares" /\ last.key = k /\ last.result = Ok)
        => (~everResolved[k] /\ ~seenEnded[k])

\* a buy has been rejected on a market past its deadline whose stored
\* status still reads Active
C2_Witness ==
    /\ last.op = "buy_shares"
    /\ last.result = "MarketEnded"
    /\ seenEnded[last.key]
    /\ ~everResolved[last.key]
    /\ markets[last.key].status = "Active"

\* C3: resolve_market succeeds only for the authority, on an Active market,
\* at now >= end_time, with winning_outcome < outcome_count; on success it
\* stores Resolved, the given index and the current time.  No market is
\* Resolved before its end_time.
C3_ResolveGuarded ==
    /\ [][\A k \in Keys, s \in Signers, w \in OutcomeIds :
            (Called("resolve_market", k) /\ last'.result = Ok /\ ResolveMarket(k, s, w))
            => /\ markets[k].initialized
               /\ s = markets[k].authority
               /\ markets[k].status = "Active"
               /\ now >= markets[k].end_time
               /\ w < markets[k].outcome_count
               /\ markets'[k].status = "Resolved"
               /\ markets'[k].winning_outcome = Some(w)
               /\ markets'[k].resolution_time = Some(now)]_vars
    /\ [](\A k \in Keys :
            markets[k].status = "Resolved" => now >= markets[k].end_time)

\* the authority has resolved a 10-outcome market to outcome 2
C3_Witness ==
    /\ last.op = "resolve_market"
    /\ last.result = Ok
    /\ markets[last.key].status = "Resolved"
    /\ markets[last.key].winning_outcome = Some(2)
    /\ markets[last.key].resolution_time = Some(now)

\* C4: a resolve_market call on a created market by a signer other than
\* market.authority fails with Unauthorized in every market state and at
\* every time and changes nothing in the market; the step that makes a
\* market Resolved is always a resolve_market call signed by its authority.
C4_Unauthorized ==
    /\ [][\A k \in Keys, s \in Signers, w \in OutcomeIds :
            ( /\ Called("resolve_market", k)
              /\ markets[k].initialized
              /\ s # markets[k].authority
              /\ ResolveMarket(k, s, w) )
            => /\ last'.result = "Unauthorized"
               /\ markets'[k] = markets[k]]_vars
    /\ [][\A k \in Keys :
            (markets[k].status # "Resolved" /\ markets'[k].status = "Resolved")
            => \E w \in OutcomeIds : ResolveMarket(k, markets[k].authority, w)]_vars

\* a non-authority signer has been refused on a market that was otherwise
\* ready to be resolved
C4_Witness ==
    /\ last.op = "resolve_market"
    /\ last.result = "Unauthorized"
    /\ markets[last.key].initialized
    /\ markets[last.key].status = "Active"
    /\ now >= markets[last.key].end_time

\* C5: Resolved is terminal: once the status is Resolved every resolve_market
\* call fails, and status, winning_outcome and resolution_time keep the
\* values of the first resolution across every later step.
C5_ResolvedTerminal ==
    [][\A k \in Keys :
          markets[k].status = "Resolved"
          => /\ markets'[k].status = "Resolved"
             /\ markets'[k].winning_outcome = markets[k].winning_outcome
             /\ markets'[k].resolution_time = markets[k].resolution_time
             /\ \A s \in Signers, w \in OutcomeIds :
                   (Called("resolve_market", k) /\ ResolveMarket(k, s, w))
                   => last'.result # Ok]_vars

\* the authority's second resolution, at a later time, has been refused
C5_Witness ==
    /\ last.op = "resolve_market"
    /\ last.result = "MarketNotActive"
    /\ markets[last.key].status = "Resolved"
    /\ markets[last.key].resolution_time # Some(now)

\* C6: in every state of a created market, outcome_count equals the number
\* of outcome labels supplied at creation, 2 <= outcome_count <= 10, and
\* end_time > created_at.
C6_MarketInvariant ==
    \A k \in Keys :
        markets[k].initialized
        => /\ markets[k].outcome_count = labels[k]
           /\ 2 <= markets[k].outcome_count
           /\ markets[k].outcome_count <= 10
           /\ markets[k].end_time > markets[k].created_at

\* a market with the maximum number of outcomes exists
C6_Witness ==
    \E k \in Keys :
        /\ markets[k].initialized
        /\ labels[k] = 10
        /\ markets[k].outcome_count = 10

ConfigErrors == {"InvalidEndTime", "InsufficientOutcomes", "TooManyOutcomes"}

\* C7: create_market with fewer than 2 outcomes, more than 10 outcomes, or
\* end_time <= now is rejected and no account changes; when the market
\* account does not exist yet, the error is one of the configuration errors
\* and the account stays uncreated.
C7_CreateRejected ==
    [][\A s \in Signers, t \in Titles, e \in EndTimes, n \in LenInputs :
          ( /\ Called("create_market", MarketPda(s, t))
            /\ (n < 2 \/ n > 10 \/ e <= now)
            /\ CreateMarket(s, t, e, n) )
          => /\ last'.result # Ok
             /\ markets' = markets
             /\ ~markets[MarketPda(s, t)].initialized
                => /\ last'.result \in ConfigErrors
                   /\ ~markets'[MarketPda(s, t)].initialized]_vars

\* a creation with too many outcomes has been rejected and left no market
C7_Witness ==
    /\ last.op = "create_market"
    /\ last.result = "TooManyOutcomes"
    /\ ~markets[last.key].initialized

\* C8: every successful buy_shares call with shares > 0 increases
\* total_volume and total_liquidity by the same strictly positive cost.
C8_VolumeGrows ==
    [][\A k \in Keys, o \in OutcomeIds, sh \in ShareInputs :
          (Called("buy_shares", k) /\ last'.result = Ok /\ BuyShares(k, o, sh))
          => /\ markets'[k].total_volume > markets[k].total_volume
             /\ markets'[k].total_volume - markets[k].total_volume
                  = markets'[k].total_liquidity - markets[k].total_liquidity]_vars

\* C9: after any sequence of calls, total_liquidity equals the collateral
\* collected from buyers minus the collateral redeemed, and total_liquidity
\* never exceeds total_volume.
C9_Conservation ==
    \A k \in Keys :
        markets[k].initialized
        => /\ markets[k].total_liquidity = collected[k] - redeemed[k]
           /\ markets[k].total_liquidity <= markets[k].total_volume

\* a buy has succeeded and the pool still balances
C9_Witness ==
    \E k \in Keys :
        /\ last = [op |-> "buy_shares", key |-> k, result |-> Ok]
        /\ markets[k].total_liquidity = collected[k] - redeemed[k]
        /\ markets[k].total_liquidity <= markets[k].total_volume
\* C11: resolve_market moves no collateral: a successful resolve_market
\* leaves total_volume and total_liquidity exactly as they were.
C11_ResolveMovesNothing ==
    [][\A k \in Keys, s \in Signers, w \in OutcomeIds :
          (Called("resolve_market", k) /\ last'.result = Ok /\ ResolveMarket(k, s, w))
          => /\ markets'[k].total_volume = markets[k].total_volume
             /\ markets'[k].total_liquidity = markets[k].total_liquidity]_vars

\* a market has been resolved at a time after 0 with its counters intact
C11_Witness ==
    /\ last.op = "resolve_market"
    /\ last.result = Ok
    /\ now > 0
    /\ markets[last.key].status = "Resolved"
    /\ markets[last.key].total_volume = 0
    /\ markets[last.key].total_liquidity = 0

\* C12: authority, outcome_count, created_at and end_time of a created
\* market never change, whatever call is processed and whether it succeeds
\* or fails; resolve_market writes status, winning_outcome and
\* resolution_time only.
C12_ImmutableFields ==
    /\ [][\A k \in Keys :
            markets[k].initialized
            => /\ markets'[k].initialized
               /\ markets'[k].authority = markets[k].authority
               /\ markets'[k].outcome_count = markets[k].outcome_count
               /\ markets'[k].created_at = markets[k].created_at
               /\ markets'[k].end_time = markets[k].end_time]_vars
    /\ [][\A k \in Keys, s \in Signers, w \in OutcomeIds :
            (Called("resolve_market", k) /\ ResolveMarket(k, s, w))
            => markets' = [markets EXCEPT
                             ![k].status = markets'[k].status,
                             ![k].winning_outcome = markets'[k].winning_outcome,
                             ![k].resolution_time = markets'[k].resolution_time]]_vars

\* a market created after time 0 has been resolved and still carries the
\* fields written at creation
C12_Witness ==
    /\ last.op = "resolve_market"
    /\ last.result = Ok
    /\ markets[last.key].status = "Resolved"
    /\ markets[last.key].authority = last.key[1]
    /\ markets[last.key].created_at > 0
    /\ markets[last.key].end_time > markets[last.key].created_at
    /\ markets[last.key].outcome_count = 10
\* C13: in every state of a created market, winning_outcome and
\* resolution_time are both present exactly when the status is Resolved and
\* both absent while it is Active; when present, winning_outcome <
\* outcome_count and resolution_time >= end_time.  A stored index 0 is a
\* present value, found on Resolved markets only.
C13_OptionalFields ==
    \A k \in Keys :
        markets[k].initialized
        => /\ IsSome(markets[k].winning_outcome) <=> markets[k].status = "Resolved"
           /\ IsSome(markets[k].resolution_time) <=> markets[k].status = "Resolved"
           /\ markets[k].status = "Active"
              => /\ markets[k].winning_outcome = None
                 /\ markets[k].resolution_time = None
           /\ IsSome(markets[k].winning_outcome)
              => markets[k].winning_outcome[1] < markets[k].outcome_count
           /\ IsSome(markets[k].resolution_time)
              => markets[k].resolution_time[1] >= markets[k].end_time
           /\ markets[k].winning_outcome = Some(0)
              => /\ markets[k].winning_outcome # None
                 /\ markets[k].status = "Resolved"

\* one market is resolved to index 0 while another is created and unresolved
C13_Witness ==
    \E k1, k2 \in Keys :
        /\ markets[k1].initialized
        /\ markets[k1].winning_outcome = Some(0)
        /\ IsSome(markets[k1].resolution_time)
        /\ markets[k2].initialized
        /\ markets[k2].status = "Active"
        /\ IsNone(markets[k2].winning_outcome)

\* C14: a successful create_market leaves a market with status Active,
\* total_volume = 0, total_liquidity = 0, created_at = now, end_time as
\* given and authority equal to the signer.
C14_CreateResult ==
    [][\A s \in Signers, t \in Titles, e \in EndTimes, n \in LenInputs :
          ( /\ Called("create_market", MarketPda(s, t))
            /\ last'.result = Ok
            /\ CreateMarket(s, t, e, n) )
          => /\ markets'[MarketPda(s, t)].initialized
             /\ markets'[MarketPda(s, t)].status = "Active"
             /\ markets'[MarketPda(s, t)].total_volume = 0
             /\ markets'[MarketPda(s, t)].total_liquidity = 0
             /\ markets'[MarketPda(s, t)].created_at = now
             /\ markets'[MarketPda(s, t)].end_time = e
             /\ markets'[MarketPda(s, t)].authority = s]_vars

\* bob has just created a market at time 1
C14_Witness ==
    /\ last = [op |-> "create_market", key |-> MarketPda("bob", "t1"), result |-> Ok]
    /\ now = 1
    /\ markets[MarketPda("bob", "t1")].created_at = 1
    /\ markets[MarketPda("bob", "t1")].authority = "bob"
    /\ markets[MarketPda("bob", "t1")].status = "Active"

\* C15: the stored status of a market is Active or Resolved in every state;
\* Closed and Disputed are never stored, and the only change of status that
\* occurs is Active -> Resolved.
C15_StatusValues ==
    /\ [](\A k \in Keys : markets[k].status \in {"Active", "Resolved"})
    /\ [][\A k \in Keys :
            markets'[k].status # markets[k].status
            => /\ markets[k].status = "Active"
               /\ markets'[k].status = "Resolved"]_vars

\* both markets have gone from Active to Resolved
C15_Witness ==
    /\ \A k \in Keys : markets[k].initialized /\ markets[k].status = "Resolved"
    /\ last.op = "resolve_market"
    /\ last.result = Ok
\* A buy_shares call with a valid outcome index and a positive share count
WellFormedBuy(m, o, sh) == o < m.outcome_count /\ sh > 0

\* A resolve_market call by the authority with a valid outcome index
WellFormedResolve(m, w) == w < m.outcome_count

\* C16: for an Active market at any clock value exactly one of the two is
\* accepted: every well-formed buy_shares when now < end_time, or every
\* well-formed resolve_market by the authority when now >= end_time; at
\* now == end_time only resolution is accepted.
C16_GuardsComplementary ==
    \A k \in Keys :
        (markets[k].initialized /\ markets[k].status = "Active")
        => \A o \in OutcomeIds, sh \in ShareInputs, w \in OutcomeIds :
              (WellFormedBuy(markets[k], o, sh) /\ WellFormedResolve(markets[k], w))
              => LET buyOk == BuySharesRun(markets[k], o, sh).result = Ok
                     resOk == ResolveMarketRun(markets[k], markets[k].authority, w).result = Ok
                 IN /\ buyOk <=> ~resOk
                    /\ buyOk <=> now < markets[k].end_time
                    /\ resOk <=> now >= markets[k].end_time

\* at now == end_time a buy has just been refused on an Active market that
\* the authority can resolve
C16_Witness ==
    /\ last.op = "buy_shares"
    /\ last.result = "MarketEnded"
    /\ markets[last.key].status = "Active"
    /\ now = markets[last.key].end_time
    /\ ResolveMarketRun(markets[last.key], markets[last.key].authority, 0).result = Ok
    /\ BuySharesRun(markets[last.key], 0, 1).result = "MarketEnded"
\* The authority of market k submits resolve_market with a valid index
AuthorityResolves(k) ==
    /\ markets[k].initialized
    /\ \E w \in OutcomeIds :
          /\ WellFormedResolve(markets[k], w)
          /\ ResolveMarket(k, markets[k].authority, w)

\* The clock keeps advancing and every authority keeps attempting to resolve
LiveSpec ==
    /\ Init
    /\ [][Next]_vars
    /\ WF_vars(Tick)
    /\ \A k \in Keys : WF_vars(AuthorityResolves(k))

\* C17: when the clock keeps advancing and the authority keeps attempting
\* resolve_market with a valid index, every created market eventually
\* becomes Resolved, whatever buy_shares calls are interleaved.
C17_EventuallyResolved ==
    \A k \in Keys :
        markets[k].initialized ~> markets[k].status = "Resolved"

\* a market created at time 0 with the latest deadline has been resolved
C17_Witness ==
    \E k \in Keys :
        /\ markets[k].status = "Resolved"
        /\ everResolved[k]
        /\ markets[k].created_at = 0
        /\ markets[k].end_time = MaxTime
        /\ last = [op |-> "resolve_market", key |-> k, result |-> Ok]
\* C18: errors are reported in a fixed precedence.  buy_shares on a created
\* market: MarketNotActive, then MarketEnded, then InvalidOutcome, then
\* InvalidShares.  resolve_market on a created market: Unauthorized, then
\* MarketNotActive, then MarketNotEnded, then InvalidOutcome.
C18_ErrorPrecedence ==
    /\ [][\A k \in Keys, o \in OutcomeIds, sh \in ShareInputs :
            ( /\ Called("buy_shares", k)
              /\ markets[k].initialized
              /\ BuyShares(k, o, sh) )
            => last'.result =
                 IF markets[k].status # "Active" THEN "MarketNotActive"
                 ELSE IF now >= markets[k].end_time THEN "MarketEnded"
                 ELSE IF o >= markets[k].outcome_count THEN "InvalidOutcome"
                 ELSE IF sh = 0 THEN "InvalidShares"
                 ELSE Ok]_vars
    /\ [][\A k \in Keys, s \in Signers, w \in OutcomeIds :
            ( /\ Called("resolve_market", k)
              /\ markets[k].initialized
              /\ ResolveMarket(k, s, w) )
            => last'.result =
                 IF s # markets[k].authority THEN "Unauthorized"
                 ELSE IF markets[k].status # "Active" THEN "MarketNotActive"
                 ELSE IF now < markets[k].end_time THEN "MarketNotEnded"
                 ELSE IF w >= markets[k].outcome_count THEN "InvalidOutcome"
                 ELSE Ok]_vars

\* a buy on a Resolved market, past its deadline, has reported
\* MarketNotActive
C18_Witness ==
    /\ last.op = "buy_shares"
    /\ last.result = "MarketNotActive"
    /\ markets[last.key].status = "Resolved"
    /\ now >= markets[last.key].end_time

\* C19: a market is identified by its (authority, title) address and is
\* created once: create_market for an address whose market exists fails and
\* leaves every market unchanged, so a Resolved market is never reset to
\* Active with a cleared winning_outcome.
C19_CreateOnce ==
    [][\A s \in Signers, t \in Titles, e \in EndTimes, n \in LenInputs :
          ( /\ Called("create_market", MarketPda(s, t))
            /\ markets[MarketPda(s, t)].initialized
            /\ CreateMarket(s, t, e, n) )
          => /\ last'.result # Ok
             /\ markets' = markets
             /\ markets[MarketPda(s, t)].status = "Resolved"
                => /\ markets'[MarketPda(s, t)].status = "Resolved"
                   /\ markets'[MarketPda(s, t)].winning_outcome
                        = markets[MarketPda(s, t)].winning_outcome]_vars

\* a second create_market on a Resolved market has been refused
C19_Witness ==
    /\ last.op = "create_market"
    /\ last.result = "AccountAlreadyInUse"
    /\ markets[last.key].status = "Resolved"
    /\ IsSome(markets[last.key].winning_outcome)
    /\ now < MaxTime
====
